---- MODULE Spec2Model ----
(***************************************************************************)
(* Model of msk.actions.create.CreateAction (mycroft-skills-kit): the      *)
(* template pipeline with its atexit rollback, the commit step, the GitHub *)
(* create / link operations, perform, and the lazy name producer.          *)
(***************************************************************************)
EXTENDS Integers, Sequences, FiniteSets

\* ------------------------------------------------------------------ bounds
MaxCalls == 2        \* initialize_template calls per process
MaxOps == 2          \* commit_changes / create / link calls per process

\* ------------------------------------------------------------- the state
VARIABLES
    pc,          \* "idle" | "template" | "exited": where the process is
    fs,          \* paths that exist at or beneath self.path ("" is the root)
    atexitReg,   \* registered atexit cleanups, by the call that defined them
    callNo,      \* initialize_template calls started so far
    files,       \* the files argument of the running call ({} is None)
    idx,         \* position of the for loop in skill_template
    executed,    \* entries whose handler was invoked by the running call
    written,     \* paths the running/last call created, wrote or copied
    startFs,     \* fs when the running/last call started
    last,        \* how the latest call ended: "none" | "returned" | "failed"
    everReturned,\* some call has returned normally
    fullDone,    \* an unrestricted call has returned normally
    rerun,       \* the running/last call started on a completed, committed project
    newCommits   \* commits created since the latest call started

VARIABLES
    commits,     \* commits in the history of the repository in self.path
    committed,   \* the paths recorded by the commit
    commitCalls, \* commit_changes calls made on the initialised repository
    origin,      \* a remote named 'origin' is configured
    originAdds,  \* times 'git remote add origin' was run
    pushes,      \* pushes attempted
    remote,      \* the hosted repository of this name:
                 \* "absent" | "empty" | "related" | "unrelated"
    pulled,      \* the history of the hosted repository was pulled in
    linkFailed,  \* a link_github_repo call failed in its fetch or pull
    res,         \* what the latest create / link / force_push call did
    ops          \* free-standing commit / create / link / force_push calls

VARIABLES
    perf,        \* where perform() is: "none" | "template" | "commit" | "github"
    perfOutcome, \* "none" | "running" | "finished" | "propagated"
    printed      \* print_error printed the caught error

VARIABLES
    npc,         \* the name producer: "fresh" | "ask_name" | "ask_remove" |
                 \* "ask_ok" | "returned" | "raised"
    listed,      \* names of name_to_skill (msm.list() when the producer starts)
    disk,        \* listed skills whose directory still exists
    name,        \* the name entered in the current iteration
    skill,       \* the skill found for it, or "" (None)
    removedNow,  \* this iteration removed the directory of the found skill
    prompts      \* prompts answered so far

tvars == <<pc, fs, atexitReg, callNo, files, idx, executed, written, startFs,
           last, everReturned, fullDone, rerun, newCommits>>
gvars == <<commits, committed, commitCalls, origin, originAdds, pushes, remote,
           pulled, linkFailed, res, ops>>
pvars == <<perf, perfOutcome, printed>>
nvars == <<npc, listed, disk, name, skill, removedNow, prompts>>
vars == <<tvars, gvars, pvars, nvars>>

\* ------------------------------------------------- the template pipeline
\* version-control initialisation listed right after the root
skill_template_git_early ==
    <<"", ".git", "vocab", "dialog", "__init__.py", "README.md", "LICENSE.md",
      ".gitignore", "settingsmeta.yaml">>

\* create.py:287-297: the (file, handler) list, in order
skill_template ==
    <<"", "vocab", "dialog", "__init__.py", "README.md", "LICENSE.md",
      ".gitignore", "settingsmeta.yaml", ".git">>

\* create.py:291-295: entries whose handler returns template text
StringEntries == {"__init__.py", "README.md", ".gitignore", "settingsmeta.yaml"}

\* create.py:254-262: entries made by add_vocab / add_dialog, and the file
\* each one writes into its directory
DirEntries == {"vocab", "dialog"}
DirFile(file) == IF file = "vocab" THEN "vocab/intent" ELSE "dialog/dialog"

\* the files arguments a caller passes ({} is None or the empty set: both falsy)
Restrictions ==
    { {}, {"vocab"}, {"README.md", "LICENSE.md"}, {"", ".git"} }

\* the exists() test of line 307 left out
Skipped_no_exists(file) == files # {} /\ file \notin files

\* create.py:305-307: the entry is left out by the restriction, or
\* join(self.path, file) exists
Skipped(file) == (files # {} /\ file \notin files) \/ file \in fs

InLoop == pc = "template" /\ idx <= Len(skill_template)
Current == skill_template[idx]

\* the isdir test of line 302 inverted
Registered_inverted(reg, n) == IF "" \in fs THEN reg \cup {n} ELSE reg

\* create.py:302-303: if not isdir(self.path): atexit.register(cleanup)
Registered(reg, n) == IF "" \notin fs THEN reg \cup {n} ELSE reg

\* create.py:284-303: Git(self.path), the list, the conditional register
Begin(f) ==
    /\ pc = "idle"
    /\ perf = "none"
    /\ callNo < MaxCalls
    /\ callNo' = callNo + 1
    /\ files' = f
    /\ atexitReg' = Registered(atexitReg, callNo + 1)
    /\ pc' = "template"
    /\ idx' = 1
    /\ executed' = <<>>
    /\ written' = {}
    /\ startFs' = fs
    /\ last' = "none"
    /\ rerun' = (fullDone /\ commits >= 1)
    /\ newCommits' = 0
    /\ UNCHANGED <<fs, everReturned, fullDone, gvars, nvars>>

\* a caller invokes initialize_template(files)
Start(f) ==
    /\ Begin(f)
    /\ UNCHANGED pvars

\* the loop goes on to the next entry
Advance ==
    /\ idx' = idx + 1
    /\ UNCHANGED <<pc, atexitReg, callNo, files, startFs, last, everReturned,
                   fullDone, rerun, newCommits, pvars, gvars, nvars>>

\* an exception leaves initialize_template (line 312 is not reached) and,
\* inside perform, leaves perform too; the caller handles it or the process
\* ends (Exit)
Propagate ==
    /\ pc' = "idle"
    /\ last' = "failed"
    /\ perf' = "none"
    /\ perfOutcome' = IF perf = "template" THEN "propagated" ELSE perfOutcome
    /\ UNCHANGED <<atexitReg, callNo, files, idx, startFs, everReturned,
                   fullDone, rerun, newCommits, printed, gvars, nvars>>

\* create.py:305-307: continue, or the exists() test fails
Skip ==
    /\ InLoop
    /\ Skipped(Current)
    /\ UNCHANGED <<fs, executed, written>>
    /\ Advance

\* create.py:288: makedirs(self.path)
MakeRoot ==
    /\ InLoop
    /\ ~Skipped(Current)
    /\ Current = ""
    /\ fs' = fs \cup {""}
    /\ written' = written \cup {""}
    /\ executed' = Append(executed, Current)
    /\ Advance

\* create.py:254-262: add_vocab / add_dialog: makedirs creates the missing
\* ancestors (the root included), then the file is written; an interrupt
\* between the two leaves the directories
AddDir ==
    /\ InLoop
    /\ ~Skipped(Current)
    /\ Current \in DirEntries
    /\ executed' = Append(executed, Current)
    /\ \/ /\ fs' = fs \cup {"", Current, DirFile(Current)}
          /\ written' = written \cup ({"", Current, DirFile(Current)} \ fs)
          /\ Advance
       \/ /\ fs' = fs \cup {"", Current}
          /\ written' = written \cup ({"", Current} \ fs)
          /\ Propagate

\* create.py:308-311: the handler returns text, written when the path is
\* still absent; open() raises FileNotFoundError when the root is missing
WriteText ==
    /\ InLoop
    /\ ~Skipped(Current)
    /\ Current \in StringEntries
    /\ executed' = Append(executed, Current)
    /\ IF "" \in fs
       THEN /\ fs' = fs \cup {Current}
            /\ written' = written \cup {Current}
            /\ Advance
       ELSE /\ UNCHANGED <<fs, written>>
            /\ Propagate

\* create.py:269-282: license(): a digit copies the chosen file to
\* LICENSE.md, Enter skips; shutil.copy raises when the root is missing
License(choiceIsDigit) ==
    /\ InLoop
    /\ ~Skipped(Current)
    /\ Current = "LICENSE.md"
    /\ executed' = Append(executed, Current)
    /\ IF ~choiceIsDigit
       THEN /\ UNCHANGED <<fs, written>>
            /\ Advance
       ELSE IF "" \in fs
       THEN /\ fs' = fs \cup {Current}
            /\ written' = written \cup {Current}
            /\ Advance
       ELSE /\ UNCHANGED <<fs, written>>
            /\ Propagate

\* create.py:296: git.init() in self.path; the command cannot start in a
\* working directory that does not exist
GitInit ==
    /\ InLoop
    /\ ~Skipped(Current)
    /\ Current = ".git"
    /\ executed' = Append(executed, Current)
    /\ IF "" \in fs
       THEN /\ fs' = fs \cup {Current}
            /\ written' = written \cup {Current}
            /\ Advance
       ELSE /\ UNCHANGED <<fs, written>>
            /\ Propagate

\* create.py:308: a producer raises, or the user interrupts one of its
\* prompts, before the handler changed anything
Raise ==
    /\ InLoop
    /\ ~Skipped(Current)
    /\ executed' = Append(executed, Current)
    /\ UNCHANGED <<fs, written>>
    /\ Propagate

\* create.py:312: atexit.unregister(cleanup) removes the function object this
\* call defined at line 299
Unregistered(reg, n) == reg \ {n}

\* create.py:312: the loop is over, unregister and return; perform goes on
Finish ==
    /\ pc = "template"
    /\ idx > Len(skill_template)
    /\ atexitReg' = Unregistered(atexitReg, callNo)
    /\ pc' = "idle"
    /\ last' = "returned"
    /\ everReturned' = TRUE
    /\ fullDone' = (fullDone \/ files = {})
    /\ perf' = IF perf = "template" THEN "commit" ELSE perf
    /\ UNCHANGED <<fs, callNo, files, idx, executed, written, startFs, rerun,
                   newCommits, perfOutcome, printed, gvars, nvars>>

\* interpreter exit (normal end, uncaught exception, KeyboardInterrupt): the
\* registered atexit handlers run; create.py:299-300 rmtree(self.path) takes
\* the repository with it
Exit ==
    /\ pc \in {"idle", "template"}
    /\ pc' = "exited"
    /\ last' = IF pc = "template" THEN "failed" ELSE last
    /\ IF atexitReg # {}
       THEN /\ fs' = {}
            /\ commits' = 0
            /\ committed' = {}
            /\ origin' = FALSE
            /\ pulled' = FALSE
       ELSE UNCHANGED <<fs, commits, committed, origin, pulled>>
    /\ UNCHANGED <<atexitReg, callNo, files, idx, executed, written, startFs,
                   everReturned, fullDone, rerun, newCommits, commitCalls,
                   originAdds, pushes, remote, linkFailed, res, ops, pvars,
                   nvars>>

\* ------------------------------------------------------ the commit step
\* the record of a call that did nothing
NoRes ==
    [op |-> "none", asked |-> FALSE, raised |-> "none", returned |-> "None",
     trace |-> <<>>, api |-> 0, fetch |-> "n/a", pull |-> -1,
     unrelated |-> FALSE]

InSeq(x, seq) == \E i \in 1..Len(seq) : seq[i] = x
Count(x, seq) == Cardinality({i \in 1..Len(seq) : seq[i] = x})

\* the HEAD test of line 315 left out
HeadUnresolved_always == ".git" \in fs

\* create.py:315: git rev-parse HEAD prints the word HEAD when it cannot
\* resolve it, that is in a repository without commits
HeadUnresolved == ".git" \in fs /\ commits = 0 /\ ~pulled

\* create.py:314-317: commit_changes
commit_changes ==
    /\ IF HeadUnresolved
       THEN /\ commits' = commits + 1
            /\ committed' = fs \ {".git"}
            /\ newCommits' = newCommits + 1
       ELSE UNCHANGED <<commits, committed, newCommits>>
    /\ commitCalls' = IF ".git" \in fs THEN commitCalls + 1 ELSE commitCalls

\* a caller invokes commit_changes()
CommitChanges ==
    /\ pc = "idle"
    /\ perf = "none"
    /\ ops < MaxOps
    /\ ops' = ops + 1
    /\ commit_changes
    /\ res' = [NoRes EXCEPT !.op = "commit"]
    /\ UNCHANGED <<pc, fs, atexitReg, callNo, files, idx, executed, written,
                   startFs, last, everReturned, fullDone, rerun, origin,
                   originAdds, pushes, remote, pulled, linkFailed, pvars,
                   nvars>>

\* ------------------------------------------------- the GitHub operations
\* the remote list never holds 'origin'
OriginConfigured_never == FALSE

\* create.py:333 and 353: 'origin' in Git(self.path).remote().split('\n')
OriginConfigured == origin

\* the wrong status taken for the name collision
CreateError_404(status) ==
    IF status = 404 THEN "GithubRepoExists" ELSE "GithubException"

\* create.py:358-361: the error create_github_repo raises for a status
CreateError(status) ==
    IF status = 422 THEN "GithubRepoExists" ELSE "GithubException"

\* the wrong status taken for unrelated histories
PullError_1(status) ==
    IF status = 1 THEN "UnrelatedGithubHistory" ELSE "GitCommandError"

\* create.py:344-347: the error link_github_repo raises for a pull status
PullError(status) ==
    IF status = 128 THEN "UnrelatedGithubHistory" ELSE "GitCommandError"

\* create.py:355-363: the calls create_github_repo makes once confirmed
CreateCommands(status) ==
    IF status = 201
    THEN <<"create_repo", "remote add", "push">>
    ELSE <<"create_repo">>

\* the remote registered only once fetch and pull went through
LinkCommands_add_late(getOk, fetchOk, pull) ==
    IF ~getOk THEN <<"get_repo">>
    ELSE IF ~fetchOk THEN <<"get_repo", "fetch">>
    ELSE IF pull # 0 THEN <<"get_repo", "fetch", "pull">>
    ELSE <<"get_repo", "fetch", "pull", "remote add", "push">>

\* create.py:337-348: the calls link_github_repo makes once confirmed, each
\* made only when the one before it did not raise
LinkCommands(getOk, fetchOk, pull) ==
    IF ~getOk THEN <<"get_repo">>
    ELSE IF ~fetchOk THEN <<"get_repo", "remote add", "fetch">>
    ELSE IF pull # 0 THEN <<"get_repo", "remote add", "fetch", "pull">>
    ELSE <<"get_repo", "remote add", "fetch", "pull", "push">>

\* the hosting API: create_repo answers 422 when the name is taken, 201 when
\* it created the repository, or fails otherwise
CreateStatuses == IF remote = "absent" THEN {201, 500} ELSE {422, 500}

\* the hosting API: get_repo finds the repository, or raises
GetOutcomes == IF remote = "absent" THEN {FALSE} ELSE {TRUE, FALSE}

\* git pull origin master: 128 when the histories share no ancestor (and for
\* other fatal errors), 1 for a missing ref or a conflict, 0 when it merged
PullStatuses ==
    IF remote = "unrelated" /\ commits >= 1 THEN {128}
    ELSE IF remote = "empty" THEN {1, 128}
    ELSE {0, 1, 128}

\* git remote / fetch / push need the repository in self.path
NoRepository(opName) ==
    /\ res' = [NoRes EXCEPT !.op = opName, !.raised = "GitCommandError"]
    /\ UNCHANGED <<origin, originAdds, pushes, remote, pulled, linkFailed>>

\* the guard fails or the user declines: nothing is done, None is returned
Declined(opName, wasAsked) ==
    /\ res' = [NoRes EXCEPT !.op = opName, !.asked = wasAsked]
    /\ UNCHANGED <<origin, originAdds, pushes, remote, pulled, linkFailed>>

\* create.py:352-366: create_github_repo
create_github_repo(ans, status, pushOk) ==
    IF ".git" \notin fs THEN NoRepository("create")
    ELSE IF OriginConfigured THEN Declined("create", FALSE)
    ELSE IF ~ans THEN Declined("create", TRUE)
    ELSE LET tr == CreateCommands(status) IN
        /\ res' = [NoRes EXCEPT
                     !.op = "create", !.asked = TRUE, !.api = status,
                     !.trace = tr,
                     !.raised = IF status = 201 THEN "none"
                                ELSE CreateError(status),
                     !.returned = IF status = 201 THEN "repo" ELSE "None"]
        /\ origin' = (origin \/ InSeq("remote add", tr))
        /\ originAdds' = originAdds + Count("remote add", tr)
        /\ pushes' = pushes + Count("push", tr)
        /\ remote' = IF status # 201 THEN remote
                     ELSE IF pushOk /\ (commits >= 1 \/ pulled) THEN "related"
                     ELSE "empty"
        /\ UNCHANGED <<pulled, linkFailed>>

\* create.py:332-350: link_github_repo
link_github_repo(ans, getOk, fetchOk, pull, pushOk) ==
    IF ".git" \notin fs THEN NoRepository("link")
    ELSE IF OriginConfigured THEN Declined("link", FALSE)
    ELSE IF ~ans THEN Declined("link", TRUE)
    ELSE LET tr == LinkCommands(getOk, fetchOk, pull)
             pushed == InSeq("push", tr)
         IN
        /\ res' = [NoRes EXCEPT
                     !.op = "link", !.asked = TRUE, !.trace = tr,
                     !.fetch = IF ~InSeq("fetch", tr) THEN "n/a"
                               ELSE IF fetchOk THEN "ok" ELSE "failed",
                     !.pull = IF InSeq("pull", tr) THEN pull ELSE -1,
                     !.unrelated = (InSeq("pull", tr) /\ remote = "unrelated"
                                    /\ commits >= 1),
                     !.raised = IF ~getOk THEN "GithubException"
                                ELSE IF ~fetchOk THEN "GitCommandError"
                                ELSE IF pull # 0 THEN PullError(pull)
                                ELSE IF ~pushOk THEN "GitCommandError"
                                ELSE "none",
                     !.returned = IF pushed /\ pushOk THEN "repo" ELSE "None"]
        /\ origin' = (origin \/ InSeq("remote add", tr))
        /\ originAdds' = originAdds + Count("remote add", tr)
        /\ pushes' = pushes + Count("push", tr)
        /\ pulled' = (pulled \/ pushed)
        /\ remote' = IF pushed /\ pushOk THEN "related" ELSE remote
        /\ linkFailed' = (linkFailed \/ (getOk /\ ~pushed))

\* create.py:319-330: force_push
force_push(ans, getOk, pushOk) ==
    IF ~ans THEN Declined("force", TRUE)
    ELSE IF ~getOk THEN
        /\ res' = [NoRes EXCEPT !.op = "force", !.asked = TRUE,
                                !.trace = <<"get_repo">>,
                                !.raised = "GithubException"]
        /\ UNCHANGED <<origin, originAdds, pushes, remote, pulled, linkFailed>>
    ELSE LET ok == pushOk /\ origin /\ (commits >= 1 \/ pulled) IN
        /\ res' = [NoRes EXCEPT !.op = "force", !.asked = TRUE,
                                !.trace = <<"get_repo", "push">>,
                                !.raised = IF ok THEN "none"
                                           ELSE "GitCommandError",
                                !.returned = IF ok THEN "repo" ELSE "None"]
        /\ pushes' = pushes + 1
        /\ remote' = IF ok THEN "related" ELSE remote
        /\ UNCHANGED <<origin, originAdds, pulled, linkFailed>>

\* what a free-standing GitHub call leaves alone
RemoteFrame ==
    /\ pc = "idle"
    /\ perf = "none"
    /\ ops < MaxOps
    /\ ops' = ops + 1
    /\ UNCHANGED <<tvars, commits, committed, commitCalls, pvars, nvars>>

\* a caller invokes create_github_repo()
CreateGithubRepo ==
    /\ RemoteFrame
    /\ \E ans \in BOOLEAN, status \in CreateStatuses, pushOk \in BOOLEAN :
          create_github_repo(ans, status, pushOk)

\* a caller invokes link_github_repo()
LinkGithubRepo ==
    /\ RemoteFrame
    /\ \E ans \in BOOLEAN, getOk \in GetOutcomes, fetchOk \in BOOLEAN,
          pull \in PullStatuses, pushOk \in BOOLEAN :
          link_github_repo(ans, getOk, fetchOk, pull, pushOk)

\* a caller invokes force_push()
ForcePush ==
    /\ RemoteFrame
    /\ \E ans \in BOOLEAN, getOk \in GetOutcomes, pushOk \in BOOLEAN :
          force_push(ans, getOk, pushOk)

\* ------------------------------------------------------------- perform
\* msk.util.print_error(exc): a context manager that catches an exception of
\* the given type and prints it
print_error(exc, raisedExc) == raisedExc = exc

\* create.py:368-369: perform() calls initialize_template()
PerformStart ==
    /\ Begin({})
    /\ perf' = "template"
    /\ perfOutcome' = "running"
    /\ printed' = FALSE

\* create.py:370: self.commit_changes()
PerformCommit ==
    /\ pc = "idle"
    /\ perf = "commit"
    /\ commit_changes
    /\ perf' = "github"
    /\ UNCHANGED <<pc, fs, atexitReg, callNo, files, idx, executed, written,
                   startFs, last, everReturned, fullDone, rerun, origin,
                   originAdds, pushes, remote, pulled, linkFailed, res, ops,
                   perfOutcome, printed, nvars>>

\* create.py:371-373: create_github_repo() inside print_error, then the
\* final print
PerformCreate ==
    /\ pc = "idle"
    /\ perf = "github"
    /\ \E ans \in BOOLEAN, status \in CreateStatuses, pushOk \in BOOLEAN :
          create_github_repo(ans, status, pushOk)
    /\ printed' = print_error("GithubRepoExists", res'.raised)
    /\ perfOutcome' = IF res'.raised = "none" \/ printed'
                      THEN "finished" ELSE "propagated"
    /\ perf' = "none"
    /\ UNCHANGED <<tvars, commits, committed, commitCalls, ops, nvars>>

\* --------------------------------------------------- the name producer
MaxAsk == 6          \* prompts answered in one run of the producer

\* names the user enters, after create.py:137 normalised them
NameInputs == {"a", "a-skill", "b"}

\* create.py:138 and 148: '{}-skill'.format(name)
SkillRepo(n) ==
    CASE n = "a" -> "a-skill"
      [] n = "a-skill" -> "a-skill-skill"
      [] n = "b" -> "b-skill"

\* skills msm.list() may report when the producer starts
ListedSkills == {"a", "a-skill", "b-skill"}

\* create.py:138: name_to_skill.get(name, name_to_skill.get(name + '-skill'));
\* "" stands for None
Lookup(n) ==
    IF n \in listed THEN n
    ELSE IF SkillRepo(n) \in listed THEN SkillRepo(n)
    ELSE ""

\* create.py:134-139 and 146: a name is entered and looked up
EnterName(n) ==
    /\ npc = "ask_name"
    /\ prompts < MaxAsk
    /\ prompts' = prompts + 1
    /\ name' = n
    /\ skill' = Lookup(n)
    /\ removedNow' = FALSE
    /\ npc' = IF Lookup(n) # "" THEN "ask_remove" ELSE "ask_ok"
    /\ UNCHANGED <<listed, disk, tvars, gvars, pvars>>

\* create.py:143-146: 'Remove it?': rmtree(skill.path), which raises
\* FileNotFoundError when the directory is gone, or continue
AnswerRemove(yes) ==
    /\ npc = "ask_remove"
    /\ prompts < MaxAsk
    /\ prompts' = prompts + 1
    /\ IF ~yes
       THEN /\ npc' = "ask_name"
            /\ UNCHANGED <<disk, removedNow>>
       ELSE IF skill \in disk
       THEN /\ disk' = disk \ {skill}
            /\ removedNow' = TRUE
            /\ npc' = "ask_ok"
       ELSE /\ npc' = "raised"
            /\ UNCHANGED <<disk, removedNow>>
    /\ UNCHANGED <<listed, name, skill, tvars, gvars, pvars>>

\* create.py:153-155: 'Looks good?': return the name, or loop
AnswerLooksGood(yes) ==
    /\ npc = "ask_ok"
    /\ prompts < MaxAsk
    /\ prompts' = prompts + 1
    /\ npc' = IF yes THEN "returned" ELSE "ask_name"
    /\ UNCHANGED <<listed, disk, name, skill, removedNow, tvars, gvars, pvars>>

\* ------------------------------------------------------ specifications
\* the object was built with its name (create.py:123-124): no project, or an
\* empty directory of that name; the hosted repository may exist already
InitProject ==
    /\ pc = "idle"
    /\ fs \in { {}, {""} }
    /\ atexitReg = {}
    /\ callNo = 0
    /\ files = {}
    /\ idx = 1
    /\ executed = <<>>
    /\ written = {}
    /\ startFs = fs
    /\ last = "none"
    /\ everReturned = FALSE
    /\ fullDone = FALSE
    /\ rerun = FALSE
    /\ newCommits = 0
    /\ commits = 0
    /\ committed = {}
    /\ commitCalls = 0
    /\ origin = FALSE
    /\ originAdds = 0
    /\ pushes = 0
    /\ pulled = FALSE
    /\ linkFailed = FALSE
    /\ res = NoRes
    /\ ops = 0
    /\ perf = "none"
    /\ perfOutcome = "none"
    /\ printed = FALSE

Init ==
    /\ InitProject
    /\ remote \in {"absent", "empty", "unrelated"}
    /\ npc = "returned"
    /\ listed = {}
    /\ disk = {}
    /\ name = "a"
    /\ skill = ""
    /\ removedNow = FALSE
    /\ prompts = 0

\* callers of initialize_template and commit_changes
Next ==
    \/ \E f \in Restrictions : Start(f)
    \/ Skip
    \/ MakeRoot
    \/ AddDir
    \/ WriteText
    \/ \E d \in BOOLEAN : License(d)
    \/ GitInit
    \/ Raise
    \/ Finish
    \/ Exit
    \/ CommitChanges

Spec == Init /\ [][Next]_vars

\* perform and the callers of the GitHub operations
NextGithub ==
    \/ PerformStart
    \/ Skip
    \/ MakeRoot
    \/ AddDir
    \/ WriteText
    \/ \E d \in BOOLEAN : License(d)
    \/ GitInit
    \/ Raise
    \/ Finish
    \/ Exit
    \/ PerformCommit
    \/ PerformCreate
    \/ CommitChanges
    \/ CreateGithubRepo
    \/ LinkGithubRepo
    \/ ForcePush

SpecGithub == Init /\ [][NextGithub]_vars

\* the name producer runs at the first read of self.name (create.py:130-132),
\* before anything of the project is touched
InitName ==
    /\ InitProject
    /\ fs = {}
    /\ remote = "absent"
    /\ npc = "ask_name"
    /\ listed \in SUBSET ListedSkills
    /\ disk = listed
    /\ name = ""
    /\ skill = ""
    /\ removedNow = FALSE
    /\ prompts = 0

NextName ==
    \/ \E n \in NameInputs : EnterName(n)
    \/ \E y \in BOOLEAN : AnswerRemove(y)
    \/ \E y \in BOOLEAN : AnswerLooksGood(y)

SpecName == InitName /\ [][NextName]_vars

\* ------------------------------------------------------------ properties
Index(x, seq) == CHOOSE i \in 1..Len(seq) : seq[i] = x

\* a create_github_repo call, free-standing or the one perform makes
CreateStep ==
    \/ ops' = ops + 1 /\ res'.op = "create"
    \/ perf = "github" /\ perf' = "none"

\* a free-standing link_github_repo call
LinkStep == ops' = ops + 1 /\ res'.op = "link"

\* the call asked nothing, changed nothing and returned no repository
SkippedCall ==
    /\ ~res'.asked
    /\ res'.returned = "None"
    /\ res'.trace = <<>>
    /\ UNCHANGED <<fs, origin, originAdds, pushes, remote, pulled, commits>>

\* C1: when the latest initialize_template call started without a project
\* root and has not returned (it is running, was interrupted, or a producer
\* failed), its cleanup is registered, and once the process has exited
\* nothing of the project directory is left.
C1_RollbackOnInterrupt ==
    (callNo >= 1 /\ last # "returned" /\ "" \notin startFs)
        => /\ callNo \in atexitReg
           /\ pc = "exited" => fs = {}

\* a fresh run created something, was interrupted, and the exit removed it
C1_Witness ==
    /\ pc = "exited"
    /\ last = "failed"
    /\ "" \notin startFs
    /\ written # {}
    /\ fs = {}

\* C2 (as claimed): once some initialize_template call has returned
\* normally, no cleanup that deletes the project root is registered.
C2_NoRollbackAfterReturn == everReturned => atexitReg = {}

\* C3 (as claimed): a run on the directory of a completed, committed run
\* writes nothing and creates no commit.
C3_RerunWritesNothing == rerun => (written = {} /\ newCommits = 0)

\* C3 (amended): a run on the directory of a completed, committed run
\* creates no commit and writes no path, except LICENSE.md when that file
\* was absent at the start of the run (the license was skipped before).
C3_RerunWritesOnlyLicense ==
    rerun => (written \subseteq ({"LICENSE.md"} \ startFs) /\ newCommits = 0)

\* the second run returned and commit_changes ran again after it
C3_Witness ==
    /\ rerun
    /\ last = "returned"
    /\ res.op = "commit"
    /\ commitCalls >= 2
    /\ newCommits = 0

\* C4: whatever the restriction, a path exists or was written beneath the
\* root only while the root exists, and the handler of '.git', when it is
\* invoked, is the last handler the call invokes.
C4_RootFirstGitLast ==
    /\ (pc # "exited" /\ (fs \cup written) # {}) => "" \in fs
    /\ \A i \in 1..Len(executed) : executed[i] = ".git" => i = Len(executed)

\* a restricted run that made the root and then initialised the repository
C4_Witness ==
    /\ last = "returned"
    /\ files = {"", ".git"}
    /\ executed = <<"", ".git">>
    /\ ".git" \in fs

\* C5: a commit_changes call on an initialised repository stages everything
\* and creates one commit when there is no commit yet, changes nothing when
\* there is one, and leaves the history with exactly one commit.
C5_CommitOnce ==
    [][ (commitCalls' = commitCalls + 1) =>
          /\ IF commits = 0 /\ ~pulled
             THEN commits' = 1 /\ committed' = fs \ {".git"}
             ELSE UNCHANGED <<commits, committed>>
          /\ ~pulled => commits' = 1 ]_vars

\* commit_changes ran twice on the repository, which holds one commit
C5_Witness ==
    /\ commitCalls >= 2
    /\ commits = 1
    /\ "__init__.py" \in committed

\* C6: a create_github_repo call answered with status 422 raises
\* GithubRepoExists and registers no remote and pushes nothing; any other
\* failure status raises the GithubException itself; perform prints the
\* GithubRepoExists, finishes and keeps the project, and lets any other
\* error propagate.
C6_CreateCollision ==
    [][ CreateStep =>
          /\ res'.api = 422 =>
                /\ res'.raised = "GithubRepoExists"
                /\ UNCHANGED <<fs, origin, originAdds, pushes>>
          /\ res'.api \notin {0, 201, 422} => res'.raised = "GithubException"
          /\ (perf = "github" /\ res'.raised = "GithubRepoExists") =>
                /\ printed'
                /\ perfOutcome' = "finished"
          /\ (perf = "github" /\ res'.raised = "GithubException") =>
                /\ ~printed'
                /\ perfOutcome' = "propagated" ]_vars

\* perform hit the name collision, printed it and finished with the project
C6_Witness ==
    /\ perfOutcome = "finished"
    /\ printed
    /\ res.api = 422
    /\ res.raised = "GithubRepoExists"
    /\ "README.md" \in fs
    /\ ~origin

\* C7: in a link_github_repo call, a pull that fails on unrelated histories
\* (status 128) raises UnrelatedGithubHistory, a pull failing with another
\* status raises the GitCommandError, neither is followed by a push, and a
\* push is made only after a successful fetch and a successful pull.
C7_LinkUnrelated ==
    res.op = "link" =>
        /\ res.unrelated => res.pull = 128
        /\ res.pull = 128 => res.raised = "UnrelatedGithubHistory"
        /\ res.pull \notin {-1, 0, 128} => res.raised = "GitCommandError"
        /\ res.pull \notin {-1, 0} => ~InSeq("push", res.trace)
        /\ InSeq("push", res.trace) =>
              /\ res.fetch = "ok"
              /\ res.pull = 0
              /\ Index("fetch", res.trace) < Index("pull", res.trace)
              /\ Index("pull", res.trace) < Index("push", res.trace)

\* a link onto a repository with an unrelated history raised the error
C7_Witness ==
    /\ res.op = "link"
    /\ res.unrelated
    /\ res.raised = "UnrelatedGithubHistory"
    /\ pushes = 0

\* C8: 'origin' is registered at most once, and a create_github_repo or
\* link_github_repo call made while 'origin' is configured asks nothing,
\* changes nothing and returns no repository.
C8_OneOrigin ==
    [][ /\ originAdds' <= 1
        /\ (origin /\ (CreateStep \/ LinkStep)) => SkippedCall ]_vars

\* origin was registered and a later link call was skipped
C8_Witness ==
    /\ originAdds = 1
    /\ origin
    /\ ~linkFailed
    /\ res.op = "link"
    /\ ~res.asked

\* C9 (as claimed): the name producer never raises, and it returns only a
\* name the user confirmed, after the skill found for it, if any, was
\* removed on the user's confirmation.
C9_NameNeverRaises ==
    /\ npc # "raised"
    /\ npc = "returned" => (skill # "" => (removedNow /\ skill \notin disk))

\* C10: a link_github_repo call that fails in its fetch or pull has
\* registered 'origin' before the fetch, pushed nothing and leaves 'origin'
\* configured; every create or link call after it is skipped.
C10_FailedLinkKeepsOrigin ==
    [][ /\ (LinkStep /\ (res'.fetch = "failed" \/ res'.pull \notin {-1, 0})) =>
              /\ InSeq("remote add", res'.trace)
              /\ Index("remote add", res'.trace) < Index("fetch", res'.trace)
              /\ origin'
              /\ pushes' = pushes
        /\ (linkFailed' /\ pc' # "exited") => origin'
        /\ (linkFailed /\ (CreateStep \/ LinkStep)) => SkippedCall ]_vars

\* a link failed in its pull and the create call after it was skipped
C10_Witness ==
    /\ linkFailed
    /\ origin
    /\ res.op = "create"
    /\ ~res.asked
    /\ pushes = 0
====
